---- MODULE Spec2Model ----
(***************************************************************************)
(* Model of the Olympic Games dashboards: the filter / aggregate / join    *)
(* pipeline and the athlete and discipline tabs of                         *)
(* dashboard_olympicgames2.py (olymipic_dashboard_v2.py is the same script *)
(* with Spanish labels) and the sidebar filter chain, medal count and map  *)
(* of app_corregido.py (app.py holds the same chain).                      *)
(*                                                                         *)
(* A DataFrame is a sequence of records (rows keep their order).  A cell   *)
(* of a numeric column is an integer or NaN; a cell of a string column is  *)
(* a string or NaNStr.  One run of a Streamlit script is a walk of pc from *)
(* "start" to a final position; a user interaction reruns the script.      *)
(***************************************************************************)
EXTENDS Integers, Sequences, FiniteSets, TLC

VARIABLES
    script,           \* which script this session runs: "dashboard" or "app"
    mainFile,         \* jjoo.csv on disk: [exists, missing, rows]
    coordFile,        \* the coordinate csv on disk: [exists, missing, rows]
    pc,               \* position of the running script
    error,            \* "" or the exception that ended the run
    cached,           \* st.cache_data holds the loaders' results
    reported,         \* dashboard: the st.error messages of the two loaders
    df_olympics,      \* dashboard: load_data() / app: load_main_data()
    df_coords,        \* dashboard: load_noc_coords() / app: load_geodata()
    selected_years,   \* dashboard: <<lo, hi>> of the year slider
    selected_type,    \* dashboard: game type radio
    selected_gender,  \* dashboard: gender multiselect (a set)
    df_filtered,      \* dashboard: the globally filtered view
    total_athletes,   \* dashboard: df_filtered['name'].nunique()
    metrics_by_noc,   \* dashboard: per-NOC medal tally
    sort_by,          \* dashboard: session value of the selectbox 'geo_sort'
    top_countries,    \* dashboard: the ranked countries of the bar chart
    df_map_data,      \* dashboard: rows handed to the scatter map
    group_by_cat,     \* dashboard: session value of the selectbox 'athlete_group'
    plot_data,        \* dashboard: the rows of the distribution chart
    disc_group,       \* dashboard: session value of the selectbox 'disc_group'
    disc_specific,    \* dashboard: session value of the selectbox 'disc_specific'
    selected_group,   \* dashboard: the discipline group the treemap is cut to
    selected_specific_discipline, \* dashboard: the discipline it is cut to
    df_disciplines_filtered, \* dashboard: the rows behind the treemap
    participation_counts, \* dashboard: athletes per group and discipline
    age_by_discipline, \* dashboard: mean age per discipline, ranked
    sidebar,          \* app: [tipo_juego, pais, medalla, genero]
    df_join,          \* app: the main table merged with the coordinates
    df_tipo,          \* app: the sidebar-filtered view
    medallas_pais,    \* app: medal count per country
    medalla_seleccionada, \* app: the medal selectbox above the map
    df_mapa,          \* app: the joined table behind the map
    layer_data        \* app: the rows handed to the pydeck layer

vars == <<script, mainFile, coordFile, pc, error, cached, reported, df_olympics,
          df_coords, selected_years, selected_type, selected_gender, df_filtered,
          total_athletes, metrics_by_noc, sort_by, top_countries, df_map_data,
          group_by_cat, plot_data, disc_group, disc_specific, selected_group,
          selected_specific_discipline, df_disciplines_filtered,
          participation_counts, age_by_discipline, sidebar, df_join, df_tipo,
          medallas_pais, medalla_seleccionada, df_mapa, layer_data>>

(***************************************************************************)
(* Bounds of the model.                                                    *)
(***************************************************************************)
MaxYear == 2
MaxRows == 2
MaxTallyRows == 2
MaxJoinRows == 2
MaxCoordRows == 2
MaxAppRows == 1
MaxTabRows == 2
MaxRankRows == 2
MaxDiscRows == 2

(***************************************************************************)
(* Cells.                                                                  *)
(***************************************************************************)
\* pandas' NaN in a numeric column (year, latitude, longitude)
NaN == -1
\* pandas' NaN in a string column (read_csv turns an empty cell into NaN)
NaNStr == "NaN"
\* a cell of the year column that read_csv could not parse as a number:
\* the whole column then has dtype object
StrYear == -2

Years == 1..MaxYear
Types == {"Summer", "Winter"}
Genders == {"Male", "Female"}
\* NOC codes in the order groupby('noc') sorts them
NocOrder == <<"FRA", "USA">>
Nocs == {NocOrder[i] : i \in 1..Len(NocOrder)}
Names == {"A", "B"}
Medals == {"Gold", "Silver", "Bronze"}
EssentialCols == {"year", "type", "noc", "medal", "age", "gender",
                  "discipline_grouped", "name", "discipline"}
CoordCols == {"noc", "country", "latitude", "longitude"}

BoundedSeq(S, n) == UNION {[1..k -> S] : k \in 0..n}

Range(s) == {s[i] : i \in 1..Len(s)}

Count(s, Test(_)) == Cardinality({i \in 1..Len(s) : Test(s[i])})

Min(S) == CHOOSE x \in S : \A y \in S : x <= y
Max(S) == CHOOSE x \in S : \A y \in S : x >= y

(***************************************************************************)
(* Loading (dashboard).                                                    *)
(***************************************************************************)
\* load_data: the rows of the file, or an empty DataFrame when the file is
\* absent or lacks an essential column
load_data(file) ==
    IF ~file.exists THEN <<>>
    ELSE IF file.missing \cap EssentialCols # {} THEN <<>>
    ELSE file.rows

load_data_error_columns_only(file) ==
    IF file.exists /\ file.missing \cap EssentialCols # {}
    THEN {"main file lacks columns"} ELSE {}

\* what load_data tells the user with st.error: nothing, that the file was
\* not found, or that essential columns are missing
load_data_error(file) ==
    IF ~file.exists THEN {"main file not found"}
    ELSE IF file.missing \cap EssentialCols # {} THEN {"main file lacks columns"}
    ELSE {}

HasLatLon(c) == c.latitude # NaN /\ c.longitude # NaN

\* dropna(subset=['noc', 'country', 'latitude', 'longitude'])
HasNoNaN(c) ==
    /\ c.noc # NaNStr
    /\ c.country # NaNStr
    /\ c.latitude # NaN
    /\ c.longitude # NaN

load_noc_coords_unchecked(file) ==
    IF ~file.exists THEN <<>> ELSE SelectSeq(file.rows, HasNoNaN)

\* load_noc_coords: the rows without NaN in the four key columns, or an empty
\* table with the four columns when the file is absent or lacks one of them
load_noc_coords(file) ==
    IF ~file.exists THEN <<>>
    ELSE IF file.missing \cap CoordCols # {} THEN <<>>
    ELSE SelectSeq(file.rows, HasNoNaN)

\* what load_noc_coords tells the user with st.error
load_noc_coords_error(file) ==
    IF ~file.exists THEN {"coordinate file not found"}
    ELSE IF file.missing \cap CoordCols # {} THEN {"coordinate file lacks columns"}
    ELSE {}

(***************************************************************************)
(* Widgets (dashboard).                                                    *)
(***************************************************************************)
\* pd.api.types.is_numeric_dtype(df_olympics['year'])
IsNumericYear(df) == \A i \in 1..Len(df) : df[i].year # StrYear

\* the values Series.min() / Series.max() look at: NaN is skipped
YearValues(df) == {df[i].year : i \in 1..Len(df)} \ {NaN}

\* the (lo, hi) pairs the range slider can return
SliderRanges(df) ==
    LET min_year == Min(YearValues(df))
        max_year == Max(YearValues(df))
    IN  {r \in (min_year..max_year) \X (min_year..max_year) : r[1] <= r[2]}

\* ['All'] + list(df_olympics['type'].unique())
type_options(df) == {"All"} \cup {df[i].type : i \in 1..Len(df)}

\* the unique genders, NaN removed
gender_options(df) == {df[i].gender : i \in 1..Len(df)} \ {NaNStr}

(***************************************************************************)
(* Filter Engine (dashboard).                                              *)
(***************************************************************************)
\* a comparison with NaN is False
YearFilterOpenEnd(df, yrs) ==
    LET Keep(r) == r.year # NaN /\ r.year >= yrs[1] /\ r.year < yrs[2]
    IN  SelectSeq(df, Keep)

YearFilter(df, yrs) ==
    LET Keep(r) == r.year # NaN /\ r.year >= yrs[1] /\ r.year <= yrs[2]
    IN  SelectSeq(df, Keep)

TypeFilterFromSource(df, t) ==
    LET Keep(r) == r.type = t
    IN  IF t # "All" THEN SelectSeq(df_olympics, Keep) ELSE df

TypeFilter(df, t) ==
    LET Keep(r) == r.type = t
    IN  IF t # "All" THEN SelectSeq(df, Keep) ELSE df

GenderFilterNoGuard(df, g) ==
    LET Keep(r) == r.gender \in g
    IN  SelectSeq(df, Keep)

GenderFilterPositional(df, g) ==
    LET kept == {i \in 1..Len(df) : df_olympics[i].gender \in g}
        F[i \in 0..Len(df)] ==
            IF i = 0 THEN <<>>
            ELSE IF i \in kept THEN Append(F[i - 1], df[i]) ELSE F[i - 1]
    IN  IF g # {} THEN F[Len(df)] ELSE df

GenderFilterKeepsNull(df, g) ==
    LET Keep(r) == r.gender \in g \/ r.gender = NaNStr
    IN  IF g # {} THEN SelectSeq(df, Keep) ELSE df

GenderFilter(df, g) ==
    LET Keep(r) == r.gender \in g
    IN  IF g # {} THEN SelectSeq(df, Keep) ELSE df

\* the chain of lines 117-126, in the order the script applies it
apply(df, yrs, t, g) == GenderFilter(TypeFilter(YearFilter(df, yrs), t), g)

FilterOutcomeRaises(view) == IF view = <<>> THEN "crash" ELSE "tabs"

\* lines 128-131: an empty view is reported with st.warning and st.stop()
FilterOutcome(view) == IF view = <<>> THEN "no_data" ELSE "tabs"

(***************************************************************************)
(* Aggregator (dashboard).                                                 *)
(***************************************************************************)
NUniqueWithNaN(values) == Cardinality(Range(values))

\* Series.nunique(): the number of distinct values, NaN not counted
NUnique(values) == Cardinality(Range(values) \ {NaNStr})

NameColumn(df) == [i \in 1..Len(df) |-> df[i].name]

\* df_filtered['medal'].notna() & (df_filtered['medal'] != 'No Medal')
medal_present(r) == r.medal # NaNStr /\ r.medal # "No Medal"

\* line 192: the view gets the derived column medal_present
WithMedalPresent(df) ==
    [i \in 1..Len(df) |-> df[i] @@ [medal_present |-> medal_present(df[i])]]

\* the rows groupby('noc') puts in the group of key n
GroupRows(df, n) ==
    LET InGroup(r) == r.noc = n
    IN  SelectSeq(df, InGroup)

\* the group keys, sorted; rows with a NaN noc belong to no group
GroupKeys(df) ==
    LET Present(n) == \E i \in 1..Len(df) : df[i].noc = n
    IN  SelectSeq(NocOrder, Present)

MetricsRow(df, n) ==
    LET rows == GroupRows(df, n)
        HasMedal(r) == r.medal_present
        IsGold(r) == r.medal = "Gold"
        IsSilver(r) == r.medal = "Silver"
        IsBronze(r) == r.medal = "Bronze"
    IN  [noc |-> n,
         Total_Athletes |-> NUnique(NameColumn(rows)),
         Total_Medals |-> Count(rows, HasMedal),
         Gold |-> Count(rows, IsGold),
         Silver |-> Count(rows, IsSilver),
         Bronze |-> Count(rows, IsBronze)]

\* df_filtered.groupby('noc').agg(...).reset_index()
MetricsByNoc(df) ==
    LET keys == GroupKeys(df)
    IN  [k \in 1..Len(keys) |-> MetricsRow(df, keys[k])]

(***************************************************************************)
(* Join Resolver (dashboard).                                              *)
(***************************************************************************)
NonNegativeMedals(metrics) ==
    LET Keep(m) == m.Total_Medals >= 0
    IN  SelectSeq(metrics, Keep)

\* metrics_by_noc[metrics_by_noc['Total_Medals'] > 0]
PositiveMedals(metrics) ==
    LET Keep(m) == m.Total_Medals > 0
    IN  SelectSeq(metrics, Keep)

\* the rows a left merge on 'noc' makes of one left row: one per matching
\* right row, in the right table's order, or one with NaN in the right
\* table's columns when there is no match
MergedRows(l, right) ==
    LET Match(c) == c.noc = l.noc
        match == SelectSeq(right, Match)
    IN  IF match = <<>>
        THEN <<l @@ [country |-> NaNStr, latitude |-> NaN, longitude |-> NaN]>>
        ELSE [j \in 1..Len(match) |->
                 l @@ [country |-> match[j].country,
                       latitude |-> match[j].latitude,
                       longitude |-> match[j].longitude]]

\* pd.merge(left, right, on='noc', how='left')
MergeLeft(left, right) ==
    LET F[i \in 0..Len(left)] ==
            IF i = 0 THEN <<>> ELSE F[i - 1] \o MergedRows(left[i], right)
    IN  F[Len(left)]

FillnaLatLon(df) ==
    [i \in 1..Len(df) |->
        [df[i] EXCEPT !.latitude = IF @ = NaN THEN 0 ELSE @,
                      !.longitude = IF @ = NaN THEN 0 ELSE @]]

\* df_map_data.dropna(subset=['latitude', 'longitude'], inplace=True)
DropnaLatLon(df) ==
    LET Keep(j) == j.latitude # NaN /\ j.longitude # NaN
    IN  SelectSeq(df, Keep)

\* lines 229-230
MapData(metrics, coords) ==
    DropnaLatLon(MergeLeft(PositiveMedals(metrics), coords))

(***************************************************************************)
(* Ranking, distribution and discipline charts (dashboard).                *)
(***************************************************************************)
\* the ends and the default of the slider 'geo_topn'
TopNMin == 5
TopNDefault == 15
TopNMax == 50
TopNValues == {TopNMin, TopNDefault, TopNMax}

\* the columns of metrics_by_noc the ranking can be sorted by; the selectbox
\* starts on the first
sort_options == {"Total_Medals", "Total_Athletes", "Gold", "Silver", "Bronze"}
SortDefault == "Total_Medals"

SortKey(m, by) ==
    CASE by = "Total_Medals" -> m.Total_Medals
      [] by = "Total_Athletes" -> m.Total_Athletes
      [] by = "Gold" -> m.Gold
      [] by = "Silver" -> m.Silver
      [] by = "Bronze" -> m.Bronze

\* metrics_by_noc.sort_values(by=sort_by, ascending=False): the sort kind is
\* left at its default, quicksort, which numpy does not promise to be stable,
\* so rows of equal key may come out in any order
SortValuesDescending(metrics, by) ==
    LET Sorted(p) == \A i, j \in 1..Len(metrics) :
                        i < j => SortKey(metrics[p[i]], by) >= SortKey(metrics[p[j]], by)
    IN  {[k \in 1..Len(metrics) |-> metrics[p[k]]] :
            p \in {q \in Permutations(1..Len(metrics)) : Sorted(q)}}

FirstRows(s, n) == SubSeq(s, 1, IF Len(s) < n THEN Len(s) ELSE n)

\* line 210: every table .sort_values(...).head(top_n) can return
TopCountries(metrics, by, n) ==
    {FirstRows(sorted, n) : sorted \in SortValuesDescending(metrics, by)}

\* the selectbox 'athlete_group'; it starts on the first option
group_by_options == {"gender", "medal", "type", "None"}
GroupByDefault == "gender"

\* the cell of the column a chart is grouped by
GroupCell(r, cat) ==
    CASE cat = "gender" -> r.gender
      [] cat = "medal" -> r.medal
      [] cat = "type" -> r.type

\* lines 281-285: a copy of the view without the rows that lack the metric
\* (age) or, when a grouping is chosen, the grouping column
PlotData(df, cat) ==
    LET Keep(r) == /\ r.age # NaN
                   /\ cat # "None" => GroupCell(r, cat) # NaNStr
    IN  SelectSeq(df, Keep)

\* the traces px.violin draws for color=group_by_cat: one per value of the
\* grouping column
ViolinCategories(data, cat) ==
    IF cat = "None" THEN {} ELSE {GroupCell(data[i], cat) : i \in 1..Len(data)}

\* how many disciplines the age comparison keeps: nlargest(20, ...)
TopDisciplines == 20

DisciplineOrder == <<"Diving", "Swimming">>
Disciplines == {DisciplineOrder[i] : i \in 1..Len(DisciplineOrder)}

\* the rows groupby('discipline') puts in the group of key d
DisciplineRows(df, d) ==
    LET InGroup(r) == r.discipline = d
    IN  SelectSeq(df, InGroup)

\* the group keys, sorted; rows with a NaN discipline belong to no group
DisciplineKeys(df) ==
    LET Present(d) == \E i \in 1..Len(df) : df[i].discipline = d
    IN  SelectSeq(DisciplineOrder, Present)

\* line 406: df_filtered.groupby('discipline')['name'].nunique()
AthletesPerDiscipline(df) ==
    LET keys == DisciplineKeys(df)
    IN  [k \in 1..Len(keys) |->
            [discipline |-> keys[k],
             athlete_count |-> NUnique(NameColumn(DisciplineRows(df, keys[k])))]]

\* line 407: nlargest(20, 'athlete_count')['discipline'], read only through
\* isin(): the n disciplines of largest count, the first ones kept on a tie
\* (keep='first')
TopDisciplinesByAthletes(df) ==
    LET counts == AthletesPerDiscipline(df)
        Rank(i) == Cardinality({j \in 1..Len(counts) :
                                   counts[j].athlete_count > counts[i].athlete_count})
                   + Cardinality({j \in 1..(i - 1) :
                                   counts[j].athlete_count = counts[i].athlete_count})
                   + 1
    IN  {counts[i].discipline : i \in {j \in 1..Len(counts) : Rank(j) <= TopDisciplines}}

\* the selectbox 'disc_group' offers 'All' and the groups of the view; a
\* session value that is not on offer falls back to the first option
GroupOrder == <<"Aquatics", "Athletics">>

discipline_groups(df) == {"All"} \cup {df[i].discipline_grouped : i \in 1..Len(df)}

SelectedGroup(df, group) == IF group \in discipline_groups(df) THEN group ELSE "All"

\* lines 358-362: the rows of the chosen group
GroupFiltered(df, group) ==
    LET InGroup(r) == r.discipline_grouped = SelectedGroup(df, group)
    IN  IF SelectedGroup(df, group) # "All" THEN SelectSeq(df, InGroup) ELSE df

\* lines 365-371: the selectbox 'disc_specific' is shown only for a chosen
\* group and offers 'All' and the disciplines of that group
specific_disciplines(df, group) ==
    {"All"} \cup {GroupFiltered(df, group)[i].discipline :
                    i \in 1..Len(GroupFiltered(df, group))}

SelectedSpecific(df, group, specific) ==
    IF SelectedGroup(df, group) # "All" /\ specific \in specific_disciplines(df, group)
    THEN specific ELSE "All"

\* lines 357-375: df_disciplines_filtered
TreemapRows(df, group, specific) ==
    LET IsSpecific(r) == r.discipline = SelectedSpecific(df, group, specific)
    IN  IF SelectedSpecific(df, group, specific) # "All"
        THEN SelectSeq(GroupFiltered(df, group), IsSpecific)
        ELSE GroupFiltered(df, group)

\* lines 380-384: groupby(['discipline_grouped', 'discipline'])['name']
\*                .nunique(), computed unless the treemap has no rows
ParticipationCounts(df) ==
    LET Cell(k) == <<GroupOrder[((k - 1) \div Len(DisciplineOrder)) + 1],
                     DisciplineOrder[((k - 1) % Len(DisciplineOrder)) + 1]>>
        Rows(c) == LET In(r) == r.discipline_grouped = c[1] /\ r.discipline = c[2]
                   IN  SelectSeq(df, In)
        cells == [k \in 1..(Len(GroupOrder) * Len(DisciplineOrder)) |-> Cell(k)]
        Present(c) == Rows(c) # <<>>
        keys == SelectSeq(cells, Present)
    IN  [k \in 1..Len(keys) |->
            [discipline_grouped |-> keys[k][1],
             discipline |-> keys[k][2],
             athlete_count |-> NUnique(NameColumn(Rows(keys[k])))]]

SumOfAges(rows) ==
    LET F[i \in 0..Len(rows)] ==
            IF i = 0 THEN 0
            ELSE F[i - 1] + (IF rows[i].age = NaN THEN 0 ELSE rows[i].age)
    IN  F[Len(rows)]

MeanAgeNullAsZero(rows) == [sum |-> SumOfAges(rows), count |-> Len(rows)]

\* Series.mean() of the age column: the fraction sum / count over the cells
\* that hold a number; NaN (count 0) when none does
MeanAge(rows) ==
    LET HasAge(r) == r.age # NaN
    IN  [sum |-> SumOfAges(rows), count |-> Count(rows, HasAge)]

\* means compared as fractions
MeanAbove(a, b) == a.count > 0 /\ b.count > 0 /\ a.sum * b.count > b.sum * a.count

\* lines 410-412: the mean age of each top discipline, then
\* .sort_values('age', ascending=False): NaN means last in their order, equal
\* means in any order
AgeByDiscipline(df) ==
    LET InTop(r) == r.discipline \in TopDisciplinesByAthletes(df)
        top == SelectSeq(df, InTop)
        keys == DisciplineKeys(top)
        means == [k \in 1..Len(keys) |->
                     [discipline |-> keys[k],
                      age |-> MeanAge(DisciplineRows(top, keys[k]))]]
        Sorted(p) == \A i, j \in 1..Len(means) :
                        i < j => /\ ~MeanAbove(means[p[j]].age, means[p[i]].age)
                                 /\ means[p[i]].age.count = 0
                                       => /\ means[p[j]].age.count = 0
                                          /\ p[i] < p[j]
    IN  {[k \in 1..Len(means) |-> means[p[k]]] :
            p \in {q \in Permutations(1..Len(means)) : Sorted(q)}}

(***************************************************************************)
(* app_corregido.py: sidebar filter chain and medal count.                 *)
(***************************************************************************)
\* how many countries the medal count keeps: .head(15)
MedalCountHead == 15

TipoJuegos == {"Verano", "Invierno"}

\* ['Todos'] + list(paises): the NOCs of the games type, NaN dropped
pais_options(df) == {"Todos"} \cup ({df[i].noc : i \in 1..Len(df)} \ {NaNStr})

\* line 31: the rows of the chosen games type
TipoFilter(df, tipo_juego) ==
    LET Keep(r) == r.type = (IF tipo_juego = "Verano" THEN "Summer" ELSE "Winter")
    IN  SelectSeq(df, Keep)

\* lines 36-45: country, medal and gender, each applied unless left on "all"
SidebarFilter(df, sb) ==
    LET KeepPais(r) == r.noc = sb.pais
        KeepMedalla(r) == r.medal = sb.medalla
        KeepGenero(r) == r.gender = sb.genero
        by_pais == IF sb.pais # "Todos" THEN SelectSeq(df, KeepPais) ELSE df
        by_medalla == IF sb.medalla # "Todas"
                      THEN SelectSeq(by_pais, KeepMedalla) ELSE by_pais
    IN  IF sb.genero # "Ambos" THEN SelectSeq(by_medalla, KeepGenero) ELSE by_medalla

\* the stable descending order: rows with equal keys keep their order
SortDescending(s, Key(_)) ==
    LET Rank(i) == Cardinality({j \in 1..Len(s) : Key(s[j]) > Key(s[i])})
                   + Cardinality({j \in 1..(i - 1) : Key(s[j]) = Key(s[i])}) + 1
    IN  [k \in 1..Len(s) |-> s[CHOOSE i \in 1..Len(s) : Rank(i) = k]]

\* lines 53 and 59-61: countplot needs year and gender; boxplot, drawn when
\* the table has discipline_grouped, needs age and gender
ChartColumnMissing(file) ==
    \/ {"year", "gender"} \cap file.missing # {}
    \/ "discipline_grouped" \notin file.missing /\ "age" \in file.missing

\* line 67: df_tipo[medal in Gold/Silver/Bronze].groupby('noc')['medal']
\*          .count().sort_values(ascending=False).head(15)
\*          (every table the default sort kind can return)
MedalCount(df) ==
    LET IsMedal(r) == r.medal \in Medals
        medalled == SelectSeq(df, IsMedal)
        keys == GroupKeys(medalled)
        counts == [k \in 1..Len(keys) |->
                      [noc |-> keys[k], medal |-> Len(GroupRows(medalled, keys[k]))]]
        Sorted(p) == \A i, j \in 1..Len(counts) :
                        i < j => counts[p[i]].medal >= counts[p[j]].medal
    IN  {FirstRows([k \in 1..Len(counts) |-> counts[p[k]]], MedalCountHead) :
            p \in {q \in Permutations(1..Len(counts)) : Sorted(q)}}

\* str.lower() on the medal strings of the model
Lower(s) ==
    CASE s = "Gold" -> "gold"
      [] s = "Silver" -> "silver"
      [] s = "Bronze" -> "bronze"
      [] s = "No Medal" -> "no medal"
      [] OTHER -> s

\* the .str accessor needs a column of dtype object: read_csv gives float64 to
\* a column whose every cell is empty
HasStringMedals(df) == df = <<>> \/ \E i \in 1..Len(df) : df[i].medal # NaNStr

\* lines 76-78: the map's own medal filter, letter case ignored
MapFilter(df, medalla) ==
    LET Keep(r) == r.medal # NaNStr /\ Lower(r.medal) = Lower(medalla)
    IN  IF medalla # "Todas" THEN SelectSeq(df, Keep) ELSE df

(***************************************************************************)
(* Input files.                                                            *)
(***************************************************************************)
File(rows) == [exists |-> TRUE, missing |-> {}, rows |-> rows]
AbsentFile == [exists |-> FALSE, missing |-> {}, rows |-> <<>>]
FileLacking(col, rows) == [exists |-> TRUE, missing |-> {col}, rows |-> rows]

Base == [year |-> 1, type |-> "Summer", noc |-> "USA", medal |-> "Gold",
         age |-> 20, gender |-> "Male", discipline_grouped |-> "Aquatics",
         name |-> "A", discipline |-> "Swimming"]

BaseCoord == [noc |-> "USA", country |-> "United States",
              latitude |-> 10, longitude |-> 20]

\* the cases every session of either script can meet: a file that is absent,
\* lacks a column, is empty, or holds a year column that is not numeric or
\* holds no number at all
CoreMainFiles ==
    {AbsentFile, File(<<>>), File(<<Base>>),
     FileLacking("medal", <<Base>>), FileLacking("type", <<Base>>),
     FileLacking("name", <<Base>>),
     File(<<[Base EXCEPT !.year = StrYear]>>),
     File(<<Base, [Base EXCEPT !.year = StrYear]>>),
     File(<<[Base EXCEPT !.year = NaN]>>)}

CoreCoordFiles ==
    {AbsentFile, FileLacking("latitude", <<BaseCoord>>), File(<<BaseCoord>>)}

\* year, games type and gender vary: the columns the global filters read
FilterRecords ==
    {[Base EXCEPT !.year = y, !.type = t, !.gender = g] :
        y \in Years \cup {NaN}, t \in Types, g \in Genders \cup {NaNStr}}

\* the rows the sidebar of app_corregido.py tells apart
AppRecords ==
    {[Base EXCEPT !.type = t, !.noc = n, !.medal = m, !.gender = g] :
        t \in Types, n \in Nocs, m \in {"Gold", NaNStr}, g \in {"M", "Male"}}

\* country, medal and athlete name vary: the columns the per-NOC tally reads.
\* "gold" stands for a medal string other than Gold, Silver, Bronze, No Medal.
TallyRecords ==
    {[Base EXCEPT !.noc = n, !.medal = m, !.name = a] :
        n \in Nocs, m \in Medals \cup {"No Medal", NaNStr, "gold"},
        a \in Names \cup {NaNStr}}

\* country and medal vary: what decides a country's place on the map
JoinRecords ==
    {[Base EXCEPT !.noc = n, !.medal = m] : n \in Nocs, m \in {"Gold", NaNStr}}

\* coordinate rows: two places per country, a row without latitude and a row
\* without country code
CoordRecords ==
    {[BaseCoord EXCEPT !.noc = n, !.latitude = la] : n \in Nocs, la \in {10, 30}}
    \cup {[BaseCoord EXCEPT !.latitude = NaN], [BaseCoord EXCEPT !.noc = NaNStr]}

\* games type and medal vary: what the sidebar and the map of app_corregido.py
\* filter on.  "gold" is a medal written in another letter case.
AppMapRecords ==
    {[Base EXCEPT !.type = t, !.medal = m] :
        t \in Types, m \in {"Gold", "gold", "No Medal", NaNStr}}

\* discipline, age and medal vary: what the athlete and discipline tabs read
TabRecords ==
    {[Base EXCEPT !.discipline = d, !.age = a, !.medal = m] :
        d \in Disciplines, a \in {20, 30, NaN}, m \in {"Gold", "No Medal", NaNStr}}

\* country and medal vary: what the ranking of the countries is sorted by
\* discipline group, discipline and age vary: what the selectboxes of the
\* discipline tab and its two charts read
DiscRecords ==
    {[Base EXCEPT !.discipline_grouped = g, !.discipline = d, !.age = a] :
        g \in {GroupOrder[i] : i \in 1..Len(GroupOrder)}, d \in Disciplines,
        a \in {20, 30}}

RankRecords ==
    {[Base EXCEPT !.noc = n, !.medal = m] :
        n \in Nocs, m \in {"Gold", "Silver", NaNStr}}

\* coordinate rows with each of the four key cells empty in turn
CoordNullRecords ==
    CoordRecords \cup {[BaseCoord EXCEPT !.country = NaNStr],
                       [BaseCoord EXCEPT !.longitude = NaN]}

InitWith(dashboardFiles, appFiles, coordFiles) ==
    /\ script \in {"dashboard", "app"}
    /\ mainFile \in (IF script = "dashboard" THEN dashboardFiles ELSE appFiles)
    /\ coordFile \in coordFiles
    /\ pc = "start"
    /\ error = ""
    /\ cached = FALSE
    /\ reported = {}
    /\ df_olympics = <<>>
    /\ df_coords = <<>>
    /\ selected_years = <<0, 0>>
    /\ selected_type = "All"
    /\ selected_gender = {}
    /\ df_filtered = <<>>
    /\ total_athletes = 0
    /\ metrics_by_noc = <<>>
    /\ top_countries = <<>>
    /\ df_map_data = <<>>
    /\ plot_data = <<>>
    /\ selected_group = "All"
    /\ selected_specific_discipline = "All"
    /\ df_disciplines_filtered = <<>>
    /\ participation_counts = <<>>
    /\ age_by_discipline = <<>>
    /\ sidebar = [tipo_juego |-> "Verano", pais |-> "Todos",
                  medalla |-> "Todas", genero |-> "Ambos"]
    /\ df_join = <<>>
    /\ df_tipo = <<>>
    /\ medallas_pais = <<>>
    /\ medalla_seleccionada = "Todas"
    /\ df_mapa = <<>>
    /\ layer_data = <<>>

\* the keyed selectboxes of the tabs on their first option
DefaultTabWidgets ==
    /\ sort_by = SortDefault
    /\ group_by_cat = GroupByDefault
    /\ disc_group = "All"
    /\ disc_specific = "All"

Init ==
    /\ InitWith(CoreMainFiles \cup {File(t) : t \in BoundedSeq(FilterRecords, MaxRows)},
                CoreMainFiles \cup {File(t) : t \in BoundedSeq(AppRecords, MaxAppRows)},
                {File(<<BaseCoord>>)})
    /\ DefaultTabWidgets

InitTally ==
    /\ InitWith(CoreMainFiles \cup {File(t) : t \in BoundedSeq(TallyRecords, MaxTallyRows)},
                CoreMainFiles,
                {File(<<BaseCoord>>)})
    /\ DefaultTabWidgets

InitJoin ==
    /\ InitWith(CoreMainFiles \cup {File(t) : t \in BoundedSeq(JoinRecords, MaxJoinRows)},
                CoreMainFiles,
                CoreCoordFiles \cup {File(c) : c \in BoundedSeq(CoordRecords, MaxCoordRows)})
    /\ DefaultTabWidgets

InitApp ==
    /\ InitWith(CoreMainFiles,
                CoreMainFiles
                    \cup {FileLacking("gender", <<Base>>), FileLacking("age", <<Base>>)}
                    \cup {File(t) : t \in BoundedSeq(AppMapRecords, MaxAppRows)},
                CoreCoordFiles)
    /\ DefaultTabWidgets

\* sessions with the grouping selectbox on each of its options
InitTabs ==
    /\ InitWith(CoreMainFiles \cup {File(t) : t \in BoundedSeq(TabRecords, MaxTabRows)},
                CoreMainFiles,
                {File(<<BaseCoord>>)})
    /\ sort_by = SortDefault
    /\ group_by_cat \in group_by_options
    /\ disc_group = "All"
    /\ disc_specific = "All"

\* sessions with the sorting selectbox on each of its options
\* the session holds any choice of the two selectboxes of the discipline tab
InitDisc ==
    /\ InitWith(CoreMainFiles \cup {File(t) : t \in BoundedSeq(DiscRecords, MaxDiscRows)},
                CoreMainFiles,
                {File(<<BaseCoord>>)})
    /\ sort_by = SortDefault
    /\ group_by_cat = GroupByDefault
    /\ disc_group \in discipline_groups(mainFile.rows)
    /\ disc_specific \in {"All"} \cup Disciplines

InitRank ==
    /\ InitWith(CoreMainFiles \cup {File(t) : t \in BoundedSeq(RankRecords, MaxRankRows)},
                CoreMainFiles,
                {File(<<BaseCoord>>)})
    /\ sort_by \in sort_options
    /\ group_by_cat = GroupByDefault
    /\ disc_group = "All"
    /\ disc_specific = "All"

InitCoords ==
    /\ InitWith(CoreMainFiles \cup {File(<<Base, [Base EXCEPT !.noc = "FRA"]>>)},
                CoreMainFiles,
                CoreCoordFiles
                    \cup {File(c) : c \in BoundedSeq(CoordNullRecords, MaxCoordRows)})
    /\ DefaultTabWidgets

(***************************************************************************)
(* dashboard_olympicgames2.py, one run of the script.                      *)
(***************************************************************************)
treemap_vars == <<selected_group, selected_specific_discipline,
                  df_disciplines_filtered, participation_counts>>
dashboard_vars == <<selected_years, selected_type, selected_gender, df_filtered,
                    total_athletes, metrics_by_noc, top_countries, df_map_data,
                    plot_data, age_by_discipline, treemap_vars>>
app_vars == <<sidebar, df_join, df_tipo, medallas_pais, medalla_seleccionada,
              df_mapa, layer_data>>
files == <<script, mainFile, coordFile>>
\* the keyed selectboxes of the tabs keep the value the session holds
tab_widgets == <<sort_by, group_by_cat, disc_group, disc_specific>>

\* lines 66-67: both loaders run (st.cache_data keeps their results)
LoadData ==
    /\ script = "dashboard"
    /\ pc = "start"
    /\ df_olympics' = IF cached THEN df_olympics ELSE load_data(mainFile)
    /\ df_coords' = IF cached THEN df_coords ELSE load_noc_coords(coordFile)
    /\ reported' = IF cached THEN reported
                    ELSE load_data_error(mainFile) \cup load_noc_coords_error(coordFile)
    /\ cached' = TRUE
    /\ pc' = "loaded"
    /\ UNCHANGED <<files, tab_widgets, error, dashboard_vars, app_vars>>

\* lines 72-74: no main data, st.stop()
StopNoDataGoesOn ==
    /\ script = "dashboard"
    /\ pc = "loaded"
    /\ df_olympics = <<>>
    /\ pc' = "filter"
    /\ UNCHANGED <<files, tab_widgets, error, cached, reported, df_olympics, df_coords, dashboard_vars, app_vars>>

StopNoData ==
    /\ script = "dashboard"
    /\ pc = "loaded"
    /\ df_olympics = <<>>
    /\ pc' = "load_halt"
    /\ UNCHANGED <<files, tab_widgets, error, cached, reported, df_olympics, df_coords, dashboard_vars, app_vars>>

\* lines 78-80: a numeric year column without a single number: int(NaN) raises
WidgetsCrash ==
    /\ script = "dashboard"
    /\ pc = "loaded"
    /\ df_olympics # <<>>
    /\ IsNumericYear(df_olympics)
    /\ YearValues(df_olympics) = {}
    /\ pc' = "crash"
    /\ error' = "ValueError"
    /\ UNCHANGED <<files, tab_widgets, cached, reported, df_olympics, df_coords, dashboard_vars, app_vars>>

\* lines 78-115: the three sidebar widgets return the user's choice
ReadWidgets ==
    /\ script = "dashboard"
    /\ pc = "loaded"
    /\ df_olympics # <<>>
    /\ IsNumericYear(df_olympics) => YearValues(df_olympics) # {}
    /\ selected_years' \in (IF IsNumericYear(df_olympics)
                            THEN SliderRanges(df_olympics) ELSE {<<0, 0>>})
    /\ selected_type' \in type_options(df_olympics)
    /\ selected_gender' \in SUBSET gender_options(df_olympics)
    /\ pc' = "filter"
    /\ UNCHANGED <<files, tab_widgets, error, cached, reported, df_olympics, df_coords,
                   df_filtered, total_athletes, metrics_by_noc, top_countries,
                   df_map_data, plot_data, age_by_discipline, treemap_vars, app_vars>>

\* lines 117-131: the filter chain, then the check for an empty view.  A year
\* column of strings makes the comparison with the slider's numbers raise.
Filter ==
    /\ script = "dashboard"
    /\ pc = "filter"
    /\ IF IsNumericYear(df_olympics)
       THEN LET view == apply(df_olympics, selected_years, selected_type,
                              selected_gender)
            IN  /\ df_filtered' = view
                /\ pc' = FilterOutcome(view)
                /\ error' = ""
       ELSE /\ pc' = "crash"
            /\ error' = "TypeError"
            /\ UNCHANGED df_filtered
    /\ UNCHANGED <<files, tab_widgets, cached, reported, df_olympics, df_coords, selected_years,
                   selected_type, selected_gender, total_athletes,
                   metrics_by_noc, top_countries, df_map_data, plot_data,
                   age_by_discipline, treemap_vars, app_vars>>

AggregateInPlace ==
    /\ script = "dashboard"
    /\ pc = "tabs"
    /\ total_athletes' = NUnique(NameColumn(df_filtered))
    /\ df_filtered' = WithMedalPresent(df_filtered)
    /\ df_olympics' = WithMedalPresent(df_olympics)
    /\ metrics_by_noc' = MetricsByNoc(WithMedalPresent(df_filtered))
    /\ \E top_n \in TopNValues :
          top_countries' \in TopCountries(MetricsByNoc(WithMedalPresent(df_filtered)),
                                         sort_by, top_n)
    /\ pc' = "geo_map"
    /\ UNCHANGED <<files, tab_widgets, error, cached, reported, df_coords,
                   selected_years, selected_type, selected_gender, df_map_data,
                   plot_data, age_by_discipline, treemap_vars, app_vars>>

\* lines 156 and 192-213: the unique-athlete metric, the per-NOC tally and the
\* ranking of the countries by the chosen column
Aggregate ==
    /\ script = "dashboard"
    /\ pc = "tabs"
    /\ total_athletes' = NUnique(NameColumn(df_filtered))
    /\ df_filtered' = WithMedalPresent(df_filtered)
    /\ metrics_by_noc' = MetricsByNoc(WithMedalPresent(df_filtered))
    /\ \E top_n \in TopNValues :
          top_countries' \in TopCountries(MetricsByNoc(WithMedalPresent(df_filtered)),
                                         sort_by, top_n)
    /\ pc' = "geo_map"
    /\ UNCHANGED <<files, tab_widgets, error, cached, reported, df_olympics, df_coords,
                   selected_years, selected_type, selected_gender, df_map_data,
                   plot_data, age_by_discipline, treemap_vars, app_vars>>

\* lines 227-256: the map block, skipped when no coordinates were loaded
JoinMap ==
    /\ script = "dashboard"
    /\ pc = "geo_map"
    /\ df_map_data' = IF df_coords # <<>>
                      THEN MapData(metrics_by_noc, df_coords) ELSE <<>>
    /\ pc' = "athletes"
    /\ UNCHANGED <<files, tab_widgets, error, cached, reported, df_olympics, df_coords,
                   selected_years, selected_type, selected_gender, df_filtered,
                   total_athletes, metrics_by_noc, top_countries, plot_data,
                   age_by_discipline, treemap_vars, app_vars>>

\* lines 258-340: the athlete tab; age is its one numeric column here, and the
\* distribution chart is drawn over plot_data
AthleteTab ==
    /\ script = "dashboard"
    /\ pc = "athletes"
    /\ plot_data' = PlotData(df_filtered, group_by_cat)
    /\ pc' = "disciplines"
    /\ UNCHANGED <<files, tab_widgets, error, cached, reported, df_olympics, df_coords,
                   selected_years, selected_type, selected_gender, df_filtered,
                   total_athletes, metrics_by_noc, top_countries, df_map_data,
                   age_by_discipline, treemap_vars, app_vars>>

DisciplineTabAgeOfTreemap ==
    /\ script = "dashboard"
    /\ pc = "disciplines"
    /\ selected_group' = SelectedGroup(df_filtered, disc_group)
    /\ selected_specific_discipline' =
          SelectedSpecific(df_filtered, disc_group, disc_specific)
    /\ df_disciplines_filtered' = TreemapRows(df_filtered, disc_group, disc_specific)
    /\ participation_counts' =
          ParticipationCounts(TreemapRows(df_filtered, disc_group, disc_specific))
    /\ age_by_discipline'
          \in AgeByDiscipline(TreemapRows(df_filtered, disc_group, disc_specific))
    /\ pc' = "done"
    /\ UNCHANGED <<files, tab_widgets, error, cached, reported, df_olympics, df_coords,
                   selected_years, selected_type, selected_gender, df_filtered,
                   total_athletes, metrics_by_noc, top_countries, df_map_data,
                   plot_data, app_vars>>

\* lines 343-424: the discipline tab; the two selectboxes cut the rows of the
\* treemap, and the age comparison ranks the mean age of the disciplines with
\* most athletes
DisciplineTab ==
    /\ script = "dashboard"
    /\ pc = "disciplines"
    /\ selected_group' = SelectedGroup(df_filtered, disc_group)
    /\ selected_specific_discipline' =
          SelectedSpecific(df_filtered, disc_group, disc_specific)
    /\ df_disciplines_filtered' = TreemapRows(df_filtered, disc_group, disc_specific)
    /\ participation_counts' =
          ParticipationCounts(TreemapRows(df_filtered, disc_group, disc_specific))
    /\ age_by_discipline' \in AgeByDiscipline(df_filtered)
    /\ pc' = "done"
    /\ UNCHANGED <<files, tab_widgets, error, cached, reported, df_olympics, df_coords,
                   selected_years, selected_type, selected_gender, df_filtered,
                   total_athletes, metrics_by_noc, top_countries, df_map_data,
                   plot_data, app_vars>>

(***************************************************************************)
(* app_corregido.py, one run of the script.                                *)
(***************************************************************************)
\* lines 23-25: both files are read without a check and merged on 'noc'
AppLoad ==
    /\ script = "app"
    /\ pc = "start"
    /\ IF /\ mainFile.exists
          /\ coordFile.exists
          /\ "noc" \notin (mainFile.missing \cup coordFile.missing)
       THEN /\ df_olympics' = mainFile.rows
            /\ df_coords' = coordFile.rows
            /\ df_join' = MergeLeft(mainFile.rows, coordFile.rows)
            /\ cached' = TRUE
            /\ pc' = "sidebar"
            /\ error' = ""
       ELSE /\ pc' = "crash"
            /\ error' = IF mainFile.exists /\ coordFile.exists
                        THEN "KeyError" ELSE "FileNotFoundError"
            /\ UNCHANGED <<cached, df_olympics, df_coords, df_join>>
    /\ UNCHANGED <<files, tab_widgets, reported, dashboard_vars, sidebar, df_tipo,
                   medallas_pais, medalla_seleccionada, df_mapa, layer_data>>

\* lines 30-45: the sidebar widgets and the filter chain they drive
AppSidebar ==
    /\ script = "app"
    /\ pc = "sidebar"
    /\ IF "type" \in mainFile.missing
       THEN /\ pc' = "crash"
            /\ error' = "KeyError"
            /\ UNCHANGED <<sidebar, df_tipo>>
       ELSE \E tipo_juego \in TipoJuegos :
            \E pais \in pais_options(TipoFilter(df_olympics, tipo_juego)) :
            \E medalla \in {"Todas"} \cup Medals :
            \E genero \in {"Ambos", "M", "F"} :
               LET sb == [tipo_juego |-> tipo_juego, pais |-> pais,
                          medalla |-> medalla, genero |-> genero]
               IN  /\ sidebar' = sb
                   /\ IF \/ medalla # "Todas" /\ "medal" \in mainFile.missing
                         \/ genero # "Ambos" /\ "gender" \in mainFile.missing
                      THEN /\ pc' = "crash"
                           /\ error' = "KeyError"
                           /\ UNCHANGED df_tipo
                      ELSE /\ df_tipo' = SidebarFilter(
                                  TipoFilter(df_olympics, tipo_juego), sb)
                           /\ pc' = "medal_count"
                           /\ error' = ""
    /\ UNCHANGED <<files, tab_widgets, cached, reported, df_olympics, df_coords,
                   dashboard_vars, df_join, medallas_pais, medalla_seleccionada,
                   df_mapa, layer_data>>

\* lines 50-71: the two seaborn charts, which raise when a column they are
\* told to draw is not in the table, then the medal count per country,
\* computed whatever the size of df_tipo
AppMedalCount ==
    /\ script = "app"
    /\ pc = "medal_count"
    /\ IF ChartColumnMissing(mainFile)
       THEN /\ pc' = "crash"
            /\ error' = "ValueError"
            /\ UNCHANGED medallas_pais
       ELSE IF "medal" \in mainFile.missing
       THEN /\ pc' = "crash"
            /\ error' = "KeyError"
            /\ UNCHANGED medallas_pais
       ELSE /\ medallas_pais' \in MedalCount(df_tipo)
            /\ pc' = "map"
            /\ error' = ""
    /\ UNCHANGED <<files, tab_widgets, cached, reported, df_olympics, df_coords,
                   dashboard_vars, sidebar, df_join, df_tipo, medalla_seleccionada,
                   df_mapa, layer_data>>

AppMapOfSidebarView ==
    /\ script = "app"
    /\ pc = "map"
    /\ \E medalla \in {"Todas"} \cup Medals :
          /\ medalla_seleccionada' = medalla
          /\ IF medalla # "Todas" /\ ~HasStringMedals(df_join)
             THEN /\ pc' = "crash"
                  /\ error' = "AttributeError"
                  /\ UNCHANGED <<df_mapa, layer_data>>
             ELSE /\ df_mapa' = MapFilter(MergeLeft(df_tipo, df_coords), medalla)
                  /\ IF {"latitude", "longitude"} \cap coordFile.missing # {}
                     THEN /\ pc' = "crash"
                          /\ error' = "KeyError"
                          /\ UNCHANGED layer_data
                     ELSE /\ layer_data' = DropnaLatLon(
                                  MapFilter(MergeLeft(df_tipo, df_coords), medalla))
                          /\ pc' = "done"
                          /\ error' = ""
    /\ UNCHANGED <<files, tab_widgets, cached, reported, df_olympics, df_coords,
                   dashboard_vars, sidebar, df_join, df_tipo, medallas_pais>>

\* lines 73-102: the map of the joined table, with a medal filter of its own;
\* the layer gets the rows that have both coordinates
AppMap ==
    /\ script = "app"
    /\ pc = "map"
    /\ \E medalla \in {"Todas"} \cup Medals :
          /\ medalla_seleccionada' = medalla
          /\ IF medalla # "Todas" /\ ~HasStringMedals(df_join)
             THEN /\ pc' = "crash"
                  /\ error' = "AttributeError"
                  /\ UNCHANGED <<df_mapa, layer_data>>
             ELSE /\ df_mapa' = MapFilter(df_join, medalla)
                  /\ IF {"latitude", "longitude"} \cap coordFile.missing # {}
                     THEN /\ pc' = "crash"
                          /\ error' = "KeyError"
                          /\ UNCHANGED layer_data
                     ELSE /\ layer_data' = DropnaLatLon(MapFilter(df_join, medalla))
                          /\ pc' = "done"
                          /\ error' = ""
    /\ UNCHANGED <<files, tab_widgets, cached, reported, df_olympics, df_coords,
                   dashboard_vars, sidebar, df_join, df_tipo, medallas_pais>>

(***************************************************************************)
(* A user interaction reruns the script from its first line; only the      *)
(* cached loader results survive.                                          *)
(***************************************************************************)
Rerun ==
    /\ pc \in {"load_halt", "no_data", "crash", "done"}
    /\ pc' = "start"
    /\ error' = ""
    /\ selected_years' = <<0, 0>>
    /\ selected_type' = "All"
    /\ selected_gender' = {}
    /\ df_filtered' = <<>>
    /\ total_athletes' = 0
    /\ metrics_by_noc' = <<>>
    /\ top_countries' = <<>>
    /\ df_map_data' = <<>>
    /\ plot_data' = <<>>
    /\ selected_group' = "All"
    /\ selected_specific_discipline' = "All"
    /\ df_disciplines_filtered' = <<>>
    /\ participation_counts' = <<>>
    /\ age_by_discipline' = <<>>
    /\ sidebar' = [tipo_juego |-> "Verano", pais |-> "Todos",
                   medalla |-> "Todas", genero |-> "Ambos"]
    /\ df_tipo' = <<>>
    /\ medallas_pais' = <<>>
    /\ medalla_seleccionada' = "Todas"
    /\ df_mapa' = <<>>
    /\ layer_data' = <<>>
    /\ df_join' = <<>>
    /\ UNCHANGED <<files, tab_widgets, cached, reported, df_olympics, df_coords>>

Next ==
    \/ LoadData
    \/ StopNoData
    \/ WidgetsCrash
    \/ ReadWidgets
    \/ Filter
    \/ Aggregate
    \/ JoinMap
    \/ AthleteTab
    \/ DisciplineTab
    \/ AppLoad
    \/ AppSidebar
    \/ AppMedalCount
    \/ AppMap
    \/ Rerun

Spec == Init /\ [][Next]_vars

\* the same runs over tables that vary in country, medal and athlete name
SpecTally == InitTally /\ [][Next]_vars

\* the same runs over tables and coordinate files that vary in country
SpecJoin == InitJoin /\ [][Next]_vars

\* the same runs over the tables the map of app_corregido.py tells apart
SpecApp == InitApp /\ [][Next]_vars

\* the same runs over tables that vary in discipline, age and medal
SpecTabs == InitTabs /\ [][Next]_vars

\* the same runs over tables whose countries tie in the ranking
SpecRank == InitRank /\ [][Next]_vars

SpecDisc == InitDisc /\ [][Next]_vars

\* the same runs over coordinate files with empty cells in every key column
SpecCoords == InitCoords /\ [][Next]_vars

(***************************************************************************)
(* The Filter Engine's contract, stated on single records.                 *)
(***************************************************************************)
\* the run has just computed the filtered view
Filtered == script = "dashboard" /\ pc \in {"no_data", "tabs"}

InYearRange(r) == r.year \in selected_years[1]..selected_years[2]
TypeMatches(r) == selected_type = "All" \/ r.type = selected_type
GenderMatches(r) == selected_gender = {} \/ r.gender \in selected_gender
Matches(r) == InYearRange(r) /\ TypeMatches(r) /\ GenderMatches(r)

\* C1: the year filter keeps a record if and only if min <= year <= max, both
\* bounds inclusive: every record of the view lies in the range, and a record
\* that passes the other two predicates is in the view exactly when its year
\* lies in the range.
C1_YearRangeInclusive ==
    Filtered =>
        /\ \A i \in 1..Len(df_filtered) : InYearRange(df_filtered[i])
        /\ \A i \in 1..Len(df_olympics) :
              (TypeMatches(df_olympics[i]) /\ GenderMatches(df_olympics[i])) =>
                  (df_olympics[i] \in Range(df_filtered) <=> InYearRange(df_olympics[i]))

\* a record on the upper bound is kept while another record is dropped for
\* its year
C1_Witness ==
    /\ Filtered
    /\ \E i \in 1..Len(df_filtered) : df_filtered[i].year = selected_years[2]
    /\ \E i \in 1..Len(df_olympics) :
          /\ ~InYearRange(df_olympics[i])
          /\ TypeMatches(df_olympics[i])
          /\ GenderMatches(df_olympics[i])

\* C2: the filtered view is exactly the records that satisfy the conjunction
\* of the year, games-type and gender predicates, and each of the six orders
\* of applying the three filters gives that same view.
C2_ConjunctionAnyOrder ==
    Filtered =>
        LET y == selected_years
            t == selected_type
            g == selected_gender
        IN  /\ df_filtered = SelectSeq(df_olympics, Matches)
            /\ df_filtered = GenderFilter(YearFilter(TypeFilter(df_olympics, t), y), g)
            /\ df_filtered = TypeFilter(GenderFilter(YearFilter(df_olympics, y), g), t)
            /\ df_filtered = TypeFilter(YearFilter(GenderFilter(df_olympics, g), y), t)
            /\ df_filtered = YearFilter(TypeFilter(GenderFilter(df_olympics, g), t), y)
            /\ df_filtered = YearFilter(GenderFilter(TypeFilter(df_olympics, t), g), y)

\* the type and gender predicates both constrain, one record is kept and
\* another is dropped
C2_Witness ==
    /\ Filtered
    /\ selected_type # "All"
    /\ selected_gender # {}
    /\ df_filtered # <<>>
    /\ Len(df_filtered) < Len(df_olympics)

\* C3: filtering the filtered view again with the same predicate values
\* changes nothing: apply(apply(R, P), P) = apply(R, P).
C3_Idempotent ==
    Filtered =>
        apply(df_filtered, selected_years, selected_type, selected_gender) = df_filtered

\* the first application dropped a record and kept one
C3_Witness ==
    /\ Filtered
    /\ df_filtered # <<>>
    /\ Len(df_filtered) < Len(df_olympics)
    /\ selected_gender # {}

\* C4: an empty gender selection imposes no constraint (the view is every
\* record that passes the year and type predicates); a non-empty selection
\* keeps exactly those of them whose gender is in the selection.
C4_GenderPredicate ==
    Filtered =>
        LET Others(r) == InYearRange(r) /\ TypeMatches(r)
            InSelection(r) == r.gender \in selected_gender
            others == SelectSeq(df_olympics, Others)
        IN  IF selected_gender = {}
            THEN df_filtered = others
            ELSE df_filtered = SelectSeq(others, InSelection)

\* the selection is empty although genders were offered, and records remain
C4_Witness ==
    /\ Filtered
    /\ selected_gender = {}
    /\ gender_options(df_olympics) # {}
    /\ df_filtered # <<>>

\* the slider is on its full range and no games type is chosen: the only
\* constraint is the gender selection Male, and no record has another gender
\* than Male or Female
OnlyMaleSelected ==
    /\ Filtered
    /\ selected_years = <<Min(YearValues(df_olympics)), Max(YearValues(df_olympics))>>
    /\ selected_type = "All"
    /\ selected_gender = {"Male"}
    /\ \A i \in 1..Len(df_olympics) : df_olympics[i].gender \in Genders

\* the view of the complementary selection, Female
FemaleView == apply(df_olympics, selected_years, selected_type, {"Female"})

IsPartition(a, b, whole) ==
    /\ Range(a) \cap Range(b) = {}
    /\ Range(a) \cup Range(b) = Range(whole)
    /\ Len(a) + Len(b) = Len(whole)

\* C5 as stated: the Male view and the Female view are disjoint and their
\* union is the full record set.
C5_PartitionAsStated ==
    OnlyMaleSelected => IsPartition(df_filtered, FemaleView, df_olympics)

\* C5: the same, for record sets in which every record has a year (the year
\* range is always applied, and it drops a record whose year is NaN even at
\* full range).
C5_PartitionOfDatedRecords ==
    (OnlyMaleSelected /\ \A i \in 1..Len(df_olympics) : df_olympics[i].year # NaN)
        => IsPartition(df_filtered, FemaleView, df_olympics)

\* both views hold a record
C5_Witness ==
    /\ OnlyMaleSelected
    /\ \A i \in 1..Len(df_olympics) : df_olympics[i].year # NaN
    /\ df_filtered # <<>>
    /\ FemaleView # <<>>

Aggregated == script = "dashboard" /\ pc \in {"geo_map", "done"}

\* C7: in every group of the per-NOC tally Gold + Silver + Bronze equals
\* Total_Medals, whatever the medal column holds.
C7_MedalTypesSumToTotal ==
    Aggregated =>
        \A k \in 1..Len(metrics_by_noc) :
            metrics_by_noc[k].Gold + metrics_by_noc[k].Silver + metrics_by_noc[k].Bronze
                = metrics_by_noc[k].Total_Medals

\* no athlete name stands in two rows of the table
NoNameTwice(df) ==
    \A i \in 1..Len(df) : \A j \in 1..Len(df) :
        (i # j /\ df[i].name # NaNStr) => df[i].name # df[j].name

NoNameMissing(df) == \A i \in 1..Len(df) : df[i].name # NaNStr

\* C8 as stated: the distinct-athlete count of the view, and of every NOC's
\* group, is at most the row count, and equals it if and only if no athlete
\* name appears in two rows.
C8_DistinctCountAsStated ==
    Aggregated =>
        /\ total_athletes <= Len(df_filtered)
        /\ total_athletes = Len(df_filtered) <=> NoNameTwice(df_filtered)
        /\ \A k \in 1..Len(metrics_by_noc) :
              LET rows == GroupRows(df_filtered, metrics_by_noc[k].noc)
              IN  /\ metrics_by_noc[k].Total_Athletes <= Len(rows)
                  /\ metrics_by_noc[k].Total_Athletes = Len(rows) <=> NoNameTwice(rows)

\* C8: the distinct-athlete count of the view, and of every NOC's group, is at
\* most the row count, and equals it if and only if every row has a name and
\* no name appears in two rows (a row without a name is counted as a row and
\* not as an athlete).
C8_DistinctCountOfNamedRows ==
    Aggregated =>
        /\ total_athletes <= Len(df_filtered)
        /\ total_athletes = Len(df_filtered)
              <=> (NoNameMissing(df_filtered) /\ NoNameTwice(df_filtered))
        /\ \A k \in 1..Len(metrics_by_noc) :
              LET rows == GroupRows(df_filtered, metrics_by_noc[k].noc)
              IN  /\ metrics_by_noc[k].Total_Athletes <= Len(rows)
                  /\ metrics_by_noc[k].Total_Athletes = Len(rows)
                        <=> (NoNameMissing(rows) /\ NoNameTwice(rows))

\* a view of two rows of one country, one with a name and one without
C8_Witness ==
    /\ Aggregated
    /\ Len(df_filtered) = 2
    /\ total_athletes = 1
    /\ Len(metrics_by_noc) = 1
    /\ ~NoNameMissing(df_filtered)

\* the run has passed the map block with a coordinate table loaded
Joined == script = "dashboard" /\ pc = "done" /\ df_coords # <<>>

SameMetrics(j, m) ==
    /\ j.noc = m.noc
    /\ j.Total_Athletes = m.Total_Athletes
    /\ j.Total_Medals = m.Total_Medals
    /\ j.Gold = m.Gold
    /\ j.Silver = m.Silver
    /\ j.Bronze = m.Bronze

SamePlace(j, c) ==
    /\ j.noc = c.noc
    /\ j.country = c.country
    /\ j.latitude = c.latitude
    /\ j.longitude = c.longitude

\* C9: the join drops no row of its left table (the per-NOC metrics with a
\* medal) whose noc has a row in the coordinate table, and every joined row
\* carries the metrics of its noc and the place of a coordinate row of that
\* noc: no coordinate is made up for a noc the coordinate table lacks.
C9_JoinKeepsMatchedAddsNoPlace ==
    Joined =>
        /\ \A k \in 1..Len(metrics_by_noc) : \A c \in 1..Len(df_coords) :
              (metrics_by_noc[k].Total_Medals > 0
                    /\ df_coords[c].noc = metrics_by_noc[k].noc) =>
                  \E j \in 1..Len(df_map_data) :
                      /\ SameMetrics(df_map_data[j], metrics_by_noc[k])
                      /\ SamePlace(df_map_data[j], df_coords[c])
        /\ \A j \in 1..Len(df_map_data) :
              /\ \E c \in 1..Len(df_coords) : SamePlace(df_map_data[j], df_coords[c])
              /\ \E k \in 1..Len(metrics_by_noc) :
                    SameMetrics(df_map_data[j], metrics_by_noc[k])

\* one country with a medal is on the map, another with a medal has no
\* coordinate row and is not
C9_Witness ==
    /\ Joined
    /\ df_map_data # <<>>
    /\ \E k \in 1..Len(metrics_by_noc) :
          /\ metrics_by_noc[k].Total_Medals > 0
          /\ \A c \in 1..Len(df_coords) : df_coords[c].noc # metrics_by_noc[k].noc

\* C10: every row handed to the map has Total_Medals > 0.
C10_MapRowsHaveMedals ==
    \A j \in 1..Len(df_map_data) : df_map_data[j].Total_Medals > 0

\* a country without a medal has a coordinate row and the map shows another
\* country
C10_Witness ==
    /\ Joined
    /\ df_map_data # <<>>
    /\ \E k \in 1..Len(metrics_by_noc) :
          /\ metrics_by_noc[k].Total_Medals = 0
          /\ \E c \in 1..Len(df_coords) : df_coords[c].noc = metrics_by_noc[k].noc

(***************************************************************************)
(* Loading: what a missing column or an absent file does to the run.       *)
(***************************************************************************)
\* the run has gone past loading into the filter stage or further
RanPastLoad ==
    pc \in {"filter", "no_data", "tabs", "geo_map", "athletes", "disciplines",
            "medal_count", "map", "done"}

MainLacksColumn == mainFile.exists /\ mainFile.missing \cap EssentialCols # {}
CoordLacksColumn == coordFile.exists /\ coordFile.missing \cap CoordCols # {}

\* C11: whenever the main table lacks one of the nine required fields the
\* load fails, and the run performs no filtering and no aggregation.
C11_MissingFieldFailsLoad == MainLacksColumn => ~RanPastLoad

Occurrences(s, c) == Cardinality({i \in 1..Len(s) : s[i] = c})

CoordLoaded ==
    /\ script = "dashboard"
    /\ pc # "start"
    /\ coordFile.exists
    /\ coordFile.missing \cap CoordCols = {}

\* C14: after loading, the coordinate table holds exactly the source rows
\* without a null in noc, country, latitude or longitude; dropping the others
\* reports no error, and a NOC all of whose coordinate rows were dropped is on
\* no row of the map data.
C14_CoordRowsWithoutNull ==
    CoordLoaded
        => /\ \A c \in Range(coordFile.rows) \cup Range(df_coords) :
                 Occurrences(df_coords, c) =
                    IF NaNStr \in {c.noc, c.country} \/ NaN \in {c.latitude, c.longitude}
                    THEN 0 ELSE Occurrences(coordFile.rows, c)
           /\ reported \cap {"coordinate file not found",
                              "coordinate file lacks columns"} = {}
           /\ error # "" => ~IsNumericYear(df_olympics) \/ YearValues(df_olympics) = {}
           /\ \A n \in Nocs :
                 (\A i \in 1..Len(coordFile.rows) :
                     coordFile.rows[i].noc = n
                        => \/ NaNStr \in {coordFile.rows[i].country}
                           \/ NaN \in {coordFile.rows[i].latitude,
                                        coordFile.rows[i].longitude})
                 => \A j \in 1..Len(df_map_data) : df_map_data[j].noc # n

C14_Witness ==
    /\ CoordLoaded
    /\ pc = "done"
    /\ \E i \in 1..Len(coordFile.rows) :
          /\ coordFile.rows[i].noc = "USA"
          /\ ~HasNoNaN(coordFile.rows[i])
    /\ \E k \in 1..Len(metrics_by_noc) :
          metrics_by_noc[k].noc = "USA" /\ metrics_by_noc[k].Total_Medals > 0
    /\ df_map_data # <<>>
    /\ \A j \in 1..Len(df_map_data) : df_map_data[j].noc = "FRA"

(***************************************************************************)
(* The loaded tables are never written after the load.                     *)
(***************************************************************************)
\* C15: whatever the user does, no step after the load changes the loaded
\* main table or the loaded coordinate table; in particular the column
\* medal_present is added to the filtered view only, never to the main table.
C15_LoadedTablesUnchanged ==
    [][/\ cached => (df_olympics' = df_olympics /\ df_coords' = df_coords)
       /\ \A i \in 1..Len(df_olympics') :
             "medal_present" \notin DOMAIN df_olympics'[i]]_vars

C15_Witness ==
    /\ script = "dashboard"
    /\ pc = "done"
    /\ cached
    /\ df_filtered # <<>>
    /\ \A i \in 1..Len(df_filtered) : "medal_present" \in DOMAIN df_filtered[i]
    /\ df_olympics = mainFile.rows
    /\ df_coords = coordFile.rows
    /\ \A i \in 1..Len(df_olympics) : "medal_present" \notin DOMAIN df_olympics[i]

(***************************************************************************)
(* The medal filters of app_corregido.py.                                  *)
(***************************************************************************)
SidebarFiltered == script = "app" /\ pc \in {"medal_count", "map", "done"}
MapFiltered == script = "app" /\ pc = "done"

\* the rows of df whose medal is exactly m
WithMedal(df, m) ==
    LET Keep(r) == r.medal = m
    IN  SelectSeq(df, Keep)

Extends(j, r) == \A f \in DOMAIN r : f \in DOMAIN j /\ j[f] = r[f]

\* C19: in a run the stages come in the order Filter, Aggregate, Join, render
\* and every aggregate and every joined table shown is computed from the
\* filtered view of that run: no joined table exists before the run has
\* filtered, the tallies are those of the current view, and every row of a
\* joined table comes from a row of the current view.
C19_TablesFromThisRunsView ==
    /\ pc \in {"start", "loaded", "filter", "sidebar"}
          => df_join = <<>> /\ df_map_data = <<>> /\ metrics_by_noc = <<>>
    /\ (script = "dashboard" /\ pc \in {"geo_map", "athletes", "disciplines", "done"})
          => /\ df_filtered = WithMedalPresent(apply(df_olympics, selected_years,
                                                      selected_type, selected_gender))
             /\ metrics_by_noc = MetricsByNoc(df_filtered)
    /\ (script = "dashboard" /\ pc \in {"athletes", "disciplines", "done"})
          => \A j \in 1..Len(df_map_data) :
                \E k \in 1..Len(metrics_by_noc) : Extends(df_map_data[j], metrics_by_noc[k])
    /\ (script = "app" /\ pc \in {"map", "done"})
          => medallas_pais \in MedalCount(df_tipo)
    /\ MapFiltered
          => \A j \in 1..Len(df_mapa) :
                \E i \in 1..Len(df_tipo) : Extends(df_mapa[j], df_tipo[i])

(***************************************************************************)
(* The numeric summary: mean age per discipline.                           *)
(***************************************************************************)
DisciplinesRanked == script = "dashboard" /\ pc = "done"

\* the rows of the view in discipline d that hold an age
AgedRows(d) ==
    LET Aged(r) == r.discipline = d /\ r.age # NaN
    IN  SelectSeq(df_filtered, Aged)

\* the sum of a column of ages without a null
Total(rows) ==
    LET F[i \in 0..Len(rows)] == IF i = 0 THEN 0 ELSE F[i - 1] + rows[i].age
    IN  F[Len(rows)]

\* C17: the mean age of a discipline is the sum of the non-null ages of its
\* rows over the number of rows that hold an age: a row with a null age adds
\* nothing to the sum and nothing to the divisor, and a discipline without a
\* single age has no mean rather than the mean 0.
C17_MeanSkipsNullAge ==
    DisciplinesRanked
        => /\ \A k \in 1..Len(age_by_discipline) :
                 /\ age_by_discipline[k].age.sum
                        = Total(AgedRows(age_by_discipline[k].discipline))
                 /\ age_by_discipline[k].age.count
                        = Len(AgedRows(age_by_discipline[k].discipline))
           /\ \A i \in 1..Len(df_filtered) :
                 \E k \in 1..Len(age_by_discipline) :
                    age_by_discipline[k].discipline = df_filtered[i].discipline

C17_Witness ==
    /\ DisciplinesRanked
    /\ \E i, j \in 1..Len(df_filtered) :
          /\ df_filtered[i].discipline = df_filtered[j].discipline
          /\ df_filtered[i].age = NaN
          /\ df_filtered[j].age # NaN
    /\ \E k \in 1..Len(age_by_discipline) :
          age_by_discipline[k].age.count = 1 /\ age_by_discipline[k].age.sum > 0

(***************************************************************************)
(* The ranking of the countries.                                           *)
(***************************************************************************)
Ranked == script = "dashboard" /\ pc \in {"geo_map", "athletes", "disciplines", "done"}

\* C18: a top-N list is the head of the stable descending sort of its table:
\* countries of equal sort key stand in the order they have in
\* metrics_by_noc, so on a tie at the cut-off the first ones are returned.
C18_TiesKeepTableOrder ==
    Ranked
        => \E n \in TopNMin..TopNMax :
              LET Key(m) == SortKey(m, sort_by)
              IN  top_countries = FirstRows(SortDescending(metrics_by_noc, Key), n)

(***************************************************************************)
(* Records without a medal: null and 'No Medal'.                           *)
(***************************************************************************)
Unmedaled == {NaNStr, "No Medal"}

\* the rows of the view of country n that hold a medal
MedalRows(n) ==
    LET Medalled(r) == r.noc = n /\ r.medal \notin Unmedaled
    IN  SelectSeq(df_filtered, Medalled)

\* C20: a null medal and the string 'No Medal' are both "no medal" wherever
\* the medal column is aggregated or grouped: neither counts in a medal
\* total and neither is a category of a chart grouped by medal.
C20_NullAndNoMedalAlike ==
    /\ Ranked
          => \A k \in 1..Len(metrics_by_noc) :
                metrics_by_noc[k].Total_Medals = Len(MedalRows(metrics_by_noc[k].noc))
    /\ (script = "app" /\ pc \in {"map", "done"})
          => \A k \in 1..Len(medallas_pais) :
                LET Medalled(r) == r.noc = medallas_pais[k].noc /\ r.medal \notin Unmedaled
                IN  medallas_pais[k].medal <= Count(df_tipo, Medalled)
    /\ (script = "dashboard" /\ pc \in {"disciplines", "done"} /\ group_by_cat = "medal")
          => ViolinCategories(plot_data, group_by_cat) \cap Unmedaled = {}

(***************************************************************************)
(* Malformed cells.                                                        *)
(***************************************************************************)
\* the main file is read in full and one of its year cells is not a number
HasMalformedYear ==
    /\ script = "dashboard"
    /\ mainFile.exists
    /\ mainFile.missing \cap EssentialCols = {}
    /\ \E i \in 1..Len(mainFile.rows) : mainFile.rows[i].year = StrYear

\* C21: a year cell that is not a number is made null when the file is
\* loaded, and the run goes on to a filtered view without raising.
C21_MalformedCellCoerced ==
    HasMalformedYear
        => /\ pc # "start" => \A i \in 1..Len(df_olympics) : df_olympics[i].year # StrYear
           /\ pc # "crash"

(***************************************************************************)
(* One place per country.                                                  *)
(***************************************************************************)
\* C22: the coordinate table the loader returns holds at most one row per
\* country code, so the table behind the map holds at most one row per
\* country code too: the join repeats no row of the per-country metrics.
C22_OnePlacePerNoc ==
    (script = "dashboard" /\ pc # "start")
        => /\ \A i, j \in 1..Len(df_coords) :
                 df_coords[i].noc = df_coords[j].noc => i = j
           /\ \A i, j \in 1..Len(df_map_data) :
                 df_map_data[i].noc = df_map_data[j].noc => i = j

(***************************************************************************)
(* An empty main table halts the run.                                      *)
(***************************************************************************)
\* no widget has been read and no table of the run has been built
NothingComputed ==
    /\ selected_years = <<0, 0>> /\ selected_type = "All" /\ selected_gender = {}
    /\ df_filtered = <<>> /\ total_athletes = 0 /\ metrics_by_noc = <<>>
    /\ top_countries = <<>> /\ df_map_data = <<>> /\ plot_data = <<>>
    /\ df_disciplines_filtered = <<>> /\ participation_counts = <<>>
    /\ age_by_discipline = <<>>

\* C23: when the loader hands back an empty main table (file absent, an
\* essential column missing, or a file without rows) the run halts right
\* after the load: no filter widget is read and no filter, aggregation,
\* join or chart stage runs.
C23_EmptyLoadHalts ==
    (script = "dashboard" /\ load_data(mainFile) = <<>>)
        => /\ pc \in {"start", "loaded", "load_halt"}
           /\ error = ""
           /\ NothingComputed

\* a complete file without rows has been loaded and the run has halted
C23_Witness ==
    /\ script = "dashboard"
    /\ mainFile.exists /\ mainFile.missing = {} /\ mainFile.rows = <<>>
    /\ cached
    /\ pc = "load_halt"

(***************************************************************************)
(* Records without a gender.                                               *)
(***************************************************************************)
\* the view of the chosen years and games type with no gender selected
UnselectedView == apply(df_olympics, selected_years, selected_type, {})

NullGender(r) == r.gender = NaNStr

\* C24: a record whose gender is null passes the gender predicate only when
\* no gender is selected; with any gender selected, the default of all
\* offered genders included, it is left out.  The view with no gender
\* selected therefore holds every row of the view of any selection.
C24_NullGenderOnlyWithoutSelection ==
    Filtered
        => /\ selected_gender # {} => SelectSeq(df_filtered, NullGender) = <<>>
           /\ selected_gender = {}
                 => SelectSeq(df_filtered, NullGender)
                        = SelectSeq(UnselectedView, NullGender)
           /\ \A r \in Range(df_filtered) :
                 Occurrences(df_filtered, r) <= Occurrences(UnselectedView, r)

\* every offered gender is selected, as by default, and the view is smaller
\* than the view of the same years and games type
C24_Witness ==
    /\ Filtered
    /\ selected_gender # {}
    /\ selected_gender = gender_options(df_olympics)
    /\ df_filtered # <<>>
    /\ Len(df_filtered) < Len(UnselectedView)

(***************************************************************************)
(* app_corregido.py: the map and the sidebar.                              *)
(***************************************************************************)
\* the files stop the run before the map, whatever the sidebar holds
MapBlocked ==
    \/ ~mainFile.exists \/ ~coordFile.exists
    \/ "noc" \in mainFile.missing \cup coordFile.missing
    \/ {"type", "medal"} \cap mainFile.missing # {}
    \/ ChartColumnMissing(mainFile)

\* the map block itself raised
MapRaised ==
    \/ medalla_seleccionada # "Todas" /\ ~HasStringMedals(df_join)
    \/ {"latitude", "longitude"} \cap coordFile.missing # {}

InTreemap(r) ==
    /\ selected_group # "All" => r.discipline_grouped = selected_group
    /\ selected_specific_discipline # "All"
          => r.discipline = selected_specific_discipline

\* C26: the two selectboxes of the discipline tab cut the rows of the
\* treemap and nothing else: the filtered view and the age comparison are
\* what the global filters make them, the discipline is asked for only under
\* a group other than 'All', and the rows of the treemap are rows of the
\* filtered view.
C26_SelectorsCutTreemapOnly ==
    DisciplinesRanked
        => /\ df_filtered = WithMedalPresent(apply(df_olympics, selected_years,
                                                    selected_type, selected_gender))
           /\ age_by_discipline \in AgeByDiscipline(df_filtered)
           /\ selected_group = "All"
                 => /\ selected_specific_discipline = "All"
                    /\ df_disciplines_filtered = df_filtered
           /\ df_disciplines_filtered = SelectSeq(df_filtered, InTreemap)
           /\ \A r \in Range(df_disciplines_filtered) :
                 Occurrences(df_disciplines_filtered, r) <= Occurrences(df_filtered, r)

\* a group and a discipline are chosen, the treemap shows part of the view
\* and the age comparison ranks a discipline the treemap does not show
C26_Witness ==
    /\ DisciplinesRanked
    /\ selected_group # "All"
    /\ selected_specific_discipline # "All"
    /\ df_disciplines_filtered # <<>>
    /\ Len(df_disciplines_filtered) < Len(df_filtered)
    /\ \E k \in 1..Len(age_by_discipline) :
          age_by_discipline[k].discipline # selected_specific_discipline

====
